---- MODULE Spec2Model ----
(***************************************************************************)
(* One engagement of the pure runner (api/agent/pure_runner.go): the       *)
(* receive loop of pureRunner.Engage, the executor goroutine launched by   *)
(* pureRunner.handleData, the writerFacade that turns the engine's         *)
(* ResponseWriter calls into frames, and the io.Pipe that carries the      *)
(* call's input from the receive loop to the engine.                       *)
(*                                                                         *)
(* The receive loop and the executor are two goroutines that share the     *)
(* callState and the stream without any lock, so every Send is two steps   *)
(* (it starts, it completes) and every "if state.streamError == nil" is a  *)
(* step of its own before the Send it guards.                              *)
(***************************************************************************)
EXTENDS Integers, Sequences, FiniteSets, TLC

\* ---------------------------------------------------------------- bounds
MaxFrames == 3      \* client frames one session receives
MaxCalls  == 2      \* calls GetCall hands out in one session
MaxWrites == 1      \* body writes the engine makes on the ResponseWriter
MaxAdapterWrites == 2   \* body writes, when the adapter is checked alone
MaxOthers == 2      \* other sessions open on the same pureRunner
MaxNullOps == 3     \* calls made on NullRunner

\* ------------------------------------------------------------- constants
StatusOK == 200     \* writerFacade.outStatus of a new session

NoCall   == 0
CallIds  == 1..MaxCalls
Statuses == {StatusOK, 404}  \* what the engine passes to WriteHeader
Payloads == {<<>>, <<1>>}    \* DataFrame.Data of a client frame
OutData  == {<<1>>}          \* bytes the engine writes in one Write
LoopPayloads    == {<<>>, <<1>>, <<2>>}   \* client payloads, receive loop alone
AdapterOutData  == {<<>>, <<1>>, <<2>>}   \* Write arguments, adapter alone
HeaderNames     == {"h"}     \* keys the engine adds to Header()
OtherIds        == 1..MaxOthers
Contexts        == {"live", "cancelled"}  \* ctx handed to TryExec

VARIABLES
    inflight,       \* pureRunner.inflight
    rl,             \* position of the receive loop (Engage)
    ret,            \* error Engage returned
    nrecv,          \* client frames received so far
    c,              \* callState.c         (NoCall = nil)
    input,          \* callState.input     (NoCall = nil), the pipe's write end
    started,        \* callState.started
    streamError,    \* callState.streamError
    ncalls,         \* calls handed out by GetCall so far
    ackOk,          \* the Acknowledge the receive loop is sending commits
    rlEof,          \* Eof of the DataFrame handleData is working on
    pipeClosed,     \* per call: write end of its input pipe closed
    pipeData,       \* per call: bytes handed to PipeWriter.Write, in order
    pipeUnread,     \* per call: bytes of the current Write not yet read
    ex,             \* position of the executor goroutine
    exCall,         \* the call the executor submitted
    exCont,         \* where the executor continues after commitHeaders
    exDetail,       \* outcome the executor reports in Finished
    writes,         \* body writes the engine has made
    wData,          \* bytes of the Write in progress
    outStatus,      \* writerFacade.outStatus
    headerWritten,  \* writerFacade.headerWritten
    sent,           \* every Send started on the stream, in order of start
    panicked,       \* a nil dereference brought the process down
    earlyStart,     \* history: the executor was launched with state.c nil
    outHeaders,     \* writerFacade.outHeaders
    committed,      \* history: status and headers when commitHeaders first ran
    written,        \* history: the bytes passed to Write, in call order
    chunksIn,       \* history: per call, the DataFrames received for it
    others,         \* the other Engage invocations on this pureRunner
    nrLog           \* the calls made on NullRunner and what they returned

vars == <<inflight, rl, ret, nrecv, c, input, started, streamError, ncalls,
          ackOk, rlEof, pipeClosed, pipeData, pipeUnread, ex, exCall, exCont,
          exDetail, writes, wData, outStatus, headerWritten, sent, panicked,
          earlyStart, outHeaders, committed, written, chunksIn, others, nrLog>>

rlVars   == <<inflight, rl, ret, nrecv, c, input, started, ncalls, ackOk, rlEof,
             earlyStart>>
exVars   == <<ex, exCall, exCont, exDetail, writes, wData>>
pipeVars == <<pipeClosed, pipeData, pipeUnread>>
wVars    == <<outStatus, headerWritten>>
hVars    == <<outHeaders, committed, written>>
xVars    == <<chunksIn, others, nrLog>>

\* ------------------------------------------------------------ the stream
\* A frame handed to engagement.Send.  fault: streamError was set when the
\* Send started; res: "pending" while the Send runs, then "ok" or "fail".
Frame(kind, flag, detail, call, data, status, by) ==
    [kind |-> kind, flag |-> flag, detail |-> detail, call |-> call,
     data |-> data, status |-> status, by |-> by,
     headers |-> IF kind = "RH" THEN outHeaders ELSE {},
     fault |-> streamError # "nil", res |-> "pending"]

SendBegin(f) == sent' = Append(sent, f)

SendEnd(by, r) ==
    sent' = [i \in DOMAIN sent |->
                IF sent[i].by = by /\ sent[i].res = "pending"
                THEN [sent[i] EXCEPT !.res = r] ELSE sent[i]]

SendResults == {"ok", "fail"}

\* -------------------------------------------------------------- the pipe
\* io.Pipe is synchronous: Write returns once the reader has consumed the
\* bytes, and fails at once on a closed write end.
PipeClose(p) == pipeClosed' = [pipeClosed EXCEPT ![p] = TRUE]

\* ------------------------------------------------------------------ Init
Init ==
    /\ inflight = 0
    /\ rl = "init"
    /\ ret = "none"
    /\ nrecv = 0
    /\ c = NoCall
    /\ input = NoCall
    /\ started = FALSE
    /\ streamError = "nil"
    /\ ncalls = 0
    /\ ackOk = FALSE
    /\ rlEof = FALSE
    /\ pipeClosed = [p \in CallIds |-> FALSE]
    /\ pipeData = [p \in CallIds |-> <<>>]
    /\ pipeUnread = [p \in CallIds |-> 0]
    /\ ex = "idle"
    /\ exCall = NoCall
    /\ exCont = "run"
    /\ exDetail = "none"
    /\ writes = 0
    /\ wData = <<>>
    /\ outStatus = StatusOK
    /\ headerWritten = FALSE
    /\ sent = <<>>
    /\ panicked = FALSE
    /\ earlyStart = FALSE
    /\ outHeaders = {}
    /\ committed = [status |-> 0, headers |-> {}]
    /\ written = <<>>
    /\ chunksIn = [p \in CallIds |-> <<>>]
    /\ others = [o \in OtherIds |-> "idle"]
    /\ nrLog = <<>>

\* ------------------------------------------------------- the receive loop
\* Engage returns err; the deferred AddInt32 runs.
ReturnWithoutRelease(err) ==
    /\ rl' = "returned"
    /\ ret' = err
    /\ inflight' = IF err = "recvErr" THEN inflight - 1 ELSE inflight

Return(err) ==
    /\ rl' = "returned"
    /\ ret' = err
    /\ inflight' = inflight - 1

\* A call GetCall built with WithReservedSlot holds its slot.
HasReservedSlot(call) == call # NoCall

EngageStart ==
    /\ ~panicked
    /\ rl = "init"
    /\ rl' = "recv"
    /\ inflight' = inflight + 1
    /\ UNCHANGED <<ret, nrecv, c, input, started, streamError, ncalls, ackOk,
                   rlEof, pipeVars, exVars, wVars, sent, panicked,
                   earlyStart, hVars, xVars>>

\* engagement.Recv() fails.
RecvError ==
    /\ ~panicked
    /\ rl = "recv"
    /\ streamError' = "recvErr"
    /\ IF c # NoCall /\ HasReservedSlot(c)
       THEN PipeClose(input)
       ELSE UNCHANGED pipeClosed
    /\ Return("recvErr")
    /\ UNCHANGED <<nrecv, c, input, started, ncalls, ackOk, rlEof, pipeData,
                   pipeUnread, exVars, wVars, sent, panicked,
                   earlyStart, hVars, xVars>>

\* handleTryCall: good = the descriptor parses and GetCall admits the call.
HandleTryCall(good) ==
    IF good
    THEN /\ ncalls' = ncalls + 1
         /\ c' = ncalls + 1
         /\ input' = ncalls + 1
    ELSE UNCHANGED <<ncalls, c, input>>

\* A ClientMsg_Try arrives: handleTryCall, then the test of streamError that
\* guards the Acknowledge.
RecvTry ==
    /\ ~panicked
    /\ rl = "recv"
    /\ nrecv < MaxFrames
    /\ nrecv' = nrecv + 1
    /\ \E good \in BOOLEAN :
         /\ good => ncalls < MaxCalls
         /\ HandleTryCall(good)
         /\ ackOk' = good
         /\ IF streamError = "nil"
            THEN /\ rl' = "ackBegin"
                 /\ UNCHANGED <<ret, inflight>>
            ELSE IF good
                 THEN /\ rl' = "recv"
                      /\ UNCHANGED <<ret, inflight>>
                 ELSE Return("allocErr")
    /\ UNCHANGED <<started, streamError, rlEof, pipeVars, exVars, wVars, sent,
                   panicked,
                   earlyStart, hVars, xVars>>

\* The receive loop starts sending the Acknowledge.
AckBegin ==
    /\ ~panicked
    /\ rl = "ackBegin"
    /\ rl' = "ackSending"
    /\ SendBegin(Frame("Ack", ackOk, IF ackOk THEN "callID" ELSE "allocErr",
                       IF ackOk THEN c ELSE NoCall, <<>>, 0, "rl"))
    /\ UNCHANGED <<inflight, ret, nrecv, c, input, started, streamError, ncalls,
                   ackOk, rlEof, pipeVars, exVars, wVars, panicked,
                   earlyStart, hVars, xVars>>

\* The Send of the Acknowledge completes.
AckEnd ==
    /\ ~panicked
    /\ rl = "ackSending"
    /\ \E r \in SendResults :
         /\ SendEnd("rl", r)
         /\ streamError' = IF r = "fail" THEN "sendErr" ELSE streamError
         /\ IF ~ackOk
            THEN Return("allocErr")
            ELSE IF r = "fail"
                 THEN Return("sendErr")
                 ELSE /\ rl' = "recv"
                      /\ UNCHANGED <<ret, inflight>>
    /\ UNCHANGED <<nrecv, c, input, started, ncalls, ackOk, rlEof, pipeVars,
                   exVars, wVars, panicked,
                   earlyStart, hVars, xVars>>

\* A ClientMsg_Data arrives: handleData up to the point where Write blocks.
RecvDataOf(payloads) ==
    /\ ~panicked
    /\ rl = "recv"
    /\ nrecv < MaxFrames
    /\ nrecv' = nrecv + 1
    /\ started' = TRUE
    /\ ex' = IF started THEN ex ELSE "start"
    /\ earlyStart' = (earlyStart \/ (~started /\ c = NoCall))
    /\ \E data \in payloads, eof \in BOOLEAN :
         /\ chunksIn' = IF input = NoCall THEN chunksIn
                         ELSE [chunksIn EXCEPT ![input] =
                                  Append(@, [data |-> data, eof |-> eof])]
         /\ rlEof' = (eof /\ Len(data) > 0 /\ input # NoCall /\ ~pipeClosed[input])
         /\ IF Len(data) > 0
            THEN IF input = NoCall
                 THEN /\ panicked' = TRUE
                      /\ UNCHANGED <<rl, ret, inflight, pipeVars>>
                 ELSE IF pipeClosed[input]
                      THEN /\ Return("pipeErr")
                           /\ UNCHANGED <<pipeVars, panicked>>
                      ELSE /\ rl' = "pipeWrite"
                           /\ pipeData' = [pipeData EXCEPT ![input] = @ \o data]
                           /\ pipeUnread' = [pipeUnread EXCEPT ![input] = Len(data)]
                           /\ UNCHANGED <<ret, inflight, pipeClosed, panicked>>
            ELSE IF eof
                 THEN IF input = NoCall
                      THEN /\ panicked' = TRUE
                           /\ UNCHANGED <<rl, ret, inflight, pipeVars>>
                      ELSE /\ PipeClose(input)
                           /\ UNCHANGED <<rl, ret, inflight, pipeData,
                                          pipeUnread, panicked>>
                 ELSE UNCHANGED <<rl, ret, inflight, pipeVars, panicked>>
    /\ UNCHANGED <<c, input, streamError, ncalls, ackOk, exCall, exCont,
                   exDetail, writes, wData, wVars, sent, hVars, others, nrLog>>

RecvData == RecvDataOf(Payloads)

\* handleData as it would be without the Close of an end-of-stream chunk
\* that carries bytes.
PipeWriteDoneWithoutClose ==
    /\ ~panicked
    /\ rl = "pipeWrite"
    /\ pipeUnread[input] = 0
    /\ rl' = "recv"
    /\ rlEof' = FALSE
    /\ UNCHANGED <<inflight, ret, nrecv, c, input, started, streamError, ncalls,
                   ackOk, pipeVars, exVars, wVars, sent, panicked,
                   earlyStart, hVars, xVars>>

\* state.input.Write returns: the engine has read the bytes.
PipeWriteDone ==
    /\ ~panicked
    /\ rl = "pipeWrite"
    /\ pipeUnread[input] = 0
    /\ rl' = "recv"
    /\ IF rlEof THEN PipeClose(input) ELSE UNCHANGED pipeClosed
    /\ rlEof' = FALSE
    /\ UNCHANGED <<inflight, ret, nrecv, c, input, started, streamError, ncalls,
                   ackOk, pipeData, pipeUnread, exVars, wVars, sent, panicked,
                   earlyStart, hVars, xVars>>

\* A message that is neither Try nor Data.
RecvOther ==
    /\ ~panicked
    /\ rl = "recv"
    /\ nrecv < MaxFrames
    /\ nrecv' = nrecv + 1
    /\ Return("protoErr")
    /\ UNCHANGED <<c, input, started, streamError, ncalls, ackOk, rlEof,
                   pipeVars, exVars, wVars, sent, panicked,
                   earlyStart, hVars, xVars>>

\* ----------------------------------------------------------- the executor
\* Submit of a nil *call dereferences it.
SubmitPanics(call) == call = NoCall

\* The goroutine evaluates state.c and enters pr.a.Submit.
ExStart ==
    /\ ~panicked
    /\ ex = "start"
    /\ exCall' = c
    /\ IF SubmitPanics(c)
       THEN /\ panicked' = TRUE
            /\ UNCHANGED ex
       ELSE /\ ex' = "run"
            /\ UNCHANGED panicked
    /\ UNCHANGED <<rlVars, streamError, pipeVars, exCont, exDetail, writes,
                   wData, wVars, sent,
                   hVars, xVars>>

\* The engine reads what the receive loop is writing into the call's input.
EngineRead ==
    /\ ~panicked
    /\ ex = "run"
    /\ pipeUnread[exCall] > 0
    /\ pipeUnread' = [pipeUnread EXCEPT ![exCall] = 0]
    /\ UNCHANGED <<rlVars, streamError, pipeClosed, pipeData, exVars, wVars,
                   sent, panicked,
                   hVars, xVars>>

\* commitHeaders as it would be without the headerWritten test.
CommitHeadersEveryTime(cont) ==
    /\ headerWritten' = TRUE
    /\ committed' = IF headerWritten THEN committed
                    ELSE [status |-> outStatus', headers |-> outHeaders]
    /\ ex' = "hdrBegin"
    /\ exCont' = cont

\* commitHeaders, entered from WriteHeader, Write or Close; cont is where
\* the caller goes on.
CommitHeaders(cont) ==
    IF headerWritten
    THEN /\ ex' = cont
         /\ UNCHANGED <<headerWritten, exCont, committed>>
    ELSE /\ headerWritten' = TRUE
         /\ committed' = [status |-> outStatus', headers |-> outHeaders]
         /\ ex' = "hdrBegin"
         /\ exCont' = cont

\* Close as it would be without its call of commitHeaders.
CloseWithoutCommit ==
    /\ ex' = "eofBegin"
    /\ UNCHANGED <<headerWritten, exCont, committed>>

\* writerFacade.Close up to its Send: commitHeaders, then the end-of-stream
\* DataFrame.
Close == CommitHeaders("eofBegin")

\* The engine calls WriteHeader(status).
WriteHeader ==
    /\ ~panicked
    /\ ex = "run"
    /\ \E s \in Statuses : outStatus' = s
    /\ CommitHeaders("run")
    /\ UNCHANGED <<rlVars, streamError, pipeVars, exCall, exDetail, writes,
                   wData, sent, panicked, outHeaders, written, xVars>>

\* The engine adds a header to the map Header() returns.
SetHeader ==
    /\ ~panicked
    /\ ex = "run"
    /\ \E h \in HeaderNames : outHeaders' = outHeaders \cup {h}
    /\ UNCHANGED <<rlVars, streamError, pipeVars, exVars, wVars, sent, panicked,
                   committed, written, xVars>>

\* commitHeaders starts sending the ResultStart frame.
HdrBegin ==
    /\ ~panicked
    /\ ex = "hdrBegin"
    /\ ex' = "hdrSending"
    /\ SendBegin(Frame("RH", FALSE, "none", NoCall, <<>>, outStatus, "ex"))
    /\ UNCHANGED <<rlVars, streamError, pipeVars, exCall, exCont, exDetail,
                   writes, wData, wVars, panicked,
                   hVars, xVars>>

\* The Send of ResultStart completes; an error is only logged.
HdrEnd ==
    /\ ~panicked
    /\ ex = "hdrSending"
    /\ \E r \in SendResults : SendEnd("ex", r)
    /\ ex' = exCont
    /\ UNCHANGED <<rlVars, streamError, pipeVars, exCall, exCont, exDetail,
                   writes, wData, wVars, panicked,
                   hVars, xVars>>

\* The engine calls Write(data).
WriteOf(max, datas) ==
    /\ ~panicked
    /\ ex = "run"
    /\ writes < max
    /\ writes' = writes + 1
    /\ \E data \in datas :
         /\ wData' = data
         /\ written' = written \o data
    /\ UNCHANGED outStatus
    /\ CommitHeaders("dataBegin")
    /\ UNCHANGED <<rlVars, streamError, pipeVars, exCall, exDetail, sent,
                   panicked, outHeaders, xVars>>

Write == WriteOf(MaxWrites, OutData)

\* Write's Send as it would be with Eof set, as in Close.
DataBeginWithEof ==
    /\ ~panicked
    /\ ex = "dataBegin"
    /\ ex' = "dataSending"
    /\ SendBegin(Frame("Data", TRUE, "none", NoCall, wData, 0, "ex"))
    /\ wData' = <<>>
    /\ UNCHANGED <<rlVars, streamError, pipeVars, exCall, exCont, exDetail,
                   writes, wVars, panicked, hVars, xVars>>

\* Write starts sending its DataFrame.
DataBegin ==
    /\ ~panicked
    /\ ex = "dataBegin"
    /\ ex' = "dataSending"
    /\ SendBegin(Frame("Data", FALSE, "none", NoCall, wData, 0, "ex"))
    /\ wData' = <<>>
    /\ UNCHANGED <<rlVars, streamError, pipeVars, exCall, exCont, exDetail,
                   writes, wVars, panicked,
                   hVars, xVars>>

\* The Send of the DataFrame completes; Write returns to the engine.
DataEnd ==
    /\ ~panicked
    /\ ex = "dataSending"
    /\ \E r \in SendResults : SendEnd("ex", r)
    /\ ex' = "run"
    /\ UNCHANGED <<rlVars, streamError, pipeVars, exCall, exCont, exDetail,
                   writes, wData, wVars, panicked,
                   hVars, xVars>>

\* pr.a.Submit returns: with an error the executor goes to report it, without
\* one it closes the writer.
SubmitReturn ==
    /\ ~panicked
    /\ ex = "run"
    /\ UNCHANGED outStatus
    /\ \E failed \in BOOLEAN :
         IF failed
         THEN /\ ex' = "finCheck"
              /\ exDetail' = "execErr"
              /\ UNCHANGED <<headerWritten, exCont, committed>>
         ELSE /\ Close
              /\ UNCHANGED exDetail
    /\ UNCHANGED <<rlVars, streamError, pipeVars, exCall, writes, wData,
                   sent, panicked, outHeaders, written, xVars>>

\* Close starts sending the end-of-stream DataFrame.
EofBegin ==
    /\ ~panicked
    /\ ex = "eofBegin"
    /\ ex' = "eofSending"
    /\ SendBegin(Frame("Data", TRUE, "none", NoCall, <<>>, 0, "ex"))
    /\ UNCHANGED <<rlVars, streamError, pipeVars, exCall, exCont, exDetail,
                   writes, wData, wVars, panicked,
                   hVars, xVars>>

\* The Send of the end-of-stream frame completes; Close returns.
EofEnd ==
    /\ ~panicked
    /\ ex = "eofSending"
    /\ \E r \in SendResults :
         /\ SendEnd("ex", r)
         /\ exDetail' = IF r = "fail" THEN "closeErr" ELSE "ok"
    /\ ex' = "finCheck"
    /\ UNCHANGED <<rlVars, streamError, pipeVars, exCall, exCont, writes,
                   wData, wVars, panicked,
                   hVars, xVars>>

\* "if state.streamError == nil" before the Finished frame.
FinCheck ==
    /\ ~panicked
    /\ ex = "finCheck"
    /\ ex' = IF streamError = "nil" THEN "finBegin" ELSE "done"
    /\ UNCHANGED <<rlVars, streamError, pipeVars, exCall, exCont, exDetail,
                   writes, wData, wVars, sent, panicked,
                   hVars, xVars>>

\* The executor starts sending the Finished frame.
FinBegin ==
    /\ ~panicked
    /\ ex = "finBegin"
    /\ ex' = "finSending"
    /\ SendBegin(Frame("Fin", exDetail = "ok",
                       IF exDetail = "ok" THEN "callID" ELSE exDetail,
                       IF exDetail = "ok" THEN c ELSE NoCall, <<>>, 0, "ex"))
    /\ UNCHANGED <<rlVars, streamError, pipeVars, exCall, exCont, exDetail,
                   writes, wData, wVars, panicked,
                   hVars, xVars>>

\* The Send of Finished completes; a failure is recorded in streamError.
FinEnd ==
    /\ ~panicked
    /\ ex = "finSending"
    /\ \E r \in SendResults :
         /\ SendEnd("ex", r)
         /\ streamError' = IF r = "fail" THEN "sendErr" ELSE streamError
    /\ ex' = "done"
    /\ UNCHANGED <<rlVars, pipeVars, exCall, exCont, exDetail, writes, wData,
                   wVars, panicked,
                   hVars, xVars>>

\* --------------------------------------------------------- specification
Next ==
    \/ EngageStart
    \/ RecvError
    \/ RecvTry
    \/ AckBegin
    \/ AckEnd
    \/ RecvData
    \/ PipeWriteDone
    \/ RecvOther
    \/ ExStart
    \/ EngineRead
    \/ WriteHeader
    \/ HdrBegin
    \/ HdrEnd
    \/ Write
    \/ DataBegin
    \/ DataEnd
    \/ SubmitReturn
    \/ EofBegin
    \/ EofEnd
    \/ FinCheck
    \/ FinBegin
    \/ FinEnd

Spec == Init /\ [][Next]_vars

\* ------------------------------------------------- the adapter on its own
\* The session after SubmitRequest, Acknowledge, a first empty DataChunk and
\* the start of the executor; from here only the executor runs, and the
\* engine makes any sequence of Header, WriteHeader and Write calls.
AdapterInit ==
    /\ inflight = 1
    /\ rl = "recv"
    /\ ret = "none"
    /\ nrecv = 2
    /\ c = 1
    /\ input = 1
    /\ started = TRUE
    /\ streamError = "nil"
    /\ ncalls = 1
    /\ ackOk = TRUE
    /\ rlEof = FALSE
    /\ pipeClosed = [p \in CallIds |-> FALSE]
    /\ pipeData = [p \in CallIds |-> <<>>]
    /\ pipeUnread = [p \in CallIds |-> 0]
    /\ ex = "run"
    /\ exCall = 1
    /\ exCont = "run"
    /\ exDetail = "none"
    /\ writes = 0
    /\ wData = <<>>
    /\ outStatus = StatusOK
    /\ headerWritten = FALSE
    /\ sent = <<[kind |-> "Ack", flag |-> TRUE, detail |-> "callID", call |-> 1,
                 data |-> <<>>, status |-> 0, by |-> "rl", headers |-> {},
                 fault |-> FALSE, res |-> "ok"]>>
    /\ panicked = FALSE
    /\ earlyStart = FALSE
    /\ outHeaders = {}
    /\ committed = [status |-> 0, headers |-> {}]
    /\ written = <<>>
    /\ chunksIn = [p \in CallIds |->
                      IF p = 1 THEN <<[data |-> <<>>, eof |-> FALSE]>> ELSE <<>>]
    /\ others = [o \in OtherIds |-> "idle"]
    /\ nrLog = <<>>

AdapterWrite == WriteOf(MaxAdapterWrites, AdapterOutData)

AdapterNext ==
    \/ SetHeader
    \/ WriteHeader
    \/ HdrBegin
    \/ HdrEnd
    \/ AdapterWrite
    \/ DataBegin
    \/ DataEnd
    \/ SubmitReturn
    \/ EofBegin
    \/ EofEnd
    \/ FinCheck
    \/ FinBegin
    \/ FinEnd

AdapterSpec == AdapterInit /\ [][AdapterNext]_vars

TypeOK ==
    /\ rl \in {"init", "recv", "ackBegin", "ackSending", "pipeWrite", "returned"}
    /\ ex \in {"idle", "start", "run", "hdrBegin", "hdrSending", "dataBegin",
               "dataSending", "eofBegin", "eofSending", "finCheck", "finBegin",
               "finSending", "done"}
    /\ streamError \in {"nil", "recvErr", "sendErr"}
    /\ c \in {NoCall} \cup CallIds
    /\ input = c
    /\ inflight \in {0, 1}

\* ------------------------------------------------------ frames on the stream
Idx == DOMAIN sent

NumKind(k) == Cardinality({i \in Idx : sent[i].kind = k})

Output == {"RH", "Data", "Fin"}

\* An Acknowledge that committed has been delivered.
AckedOk == \E i \in Idx : sent[i].kind = "Ack" /\ sent[i].flag /\ sent[i].res = "ok"

\* A Send is in progress in the receive loop / in the executor.
RlSending == rl = "ackSending"
ExSending == ex \in {"hdrSending", "dataSending", "eofSending", "finSending"}

\* -------------------------------------------------------------------- C1
\* C1: in every session, whatever the client sends, at most one Acknowledge
\* frame and at most one Finished frame are ever sent on the stream.
C1_AtMostOneAckAndFinished ==
    /\ NumKind("Ack") <= 1
    /\ NumKind("Fin") <= 1

\* -------------------------------------------------------------------- C2
\* C2: when a second SubmitRequest arrives after a successful Acknowledge,
\* the session ends with a protocol fault, the allocated call is not
\* replaced, and no second Acknowledge is ever sent.
C2_SecondSubmitRejected ==
    /\ [][(RecvTry /\ AckedOk) =>
            (rl' = "returned" /\ ret' = "protoErr" /\ c' = c /\ input' = input)]_vars
    /\ [](NumKind("Ack") <= 1)

\* -------------------------------------------------------------------- C3
\* C3: once streamError is set, by a failed receive or a failed send, no
\* activity of the session starts another Send on the stream.
C3_NoSendAfterFault == ~earlyStart => \A i \in Idx : ~sent[i].fault

\* -------------------------------------------------------------------- C4
\* C4: a session that reached Streaming and whose executor has finished has
\* sent exactly one Finished frame, unless a transport fault occurred, and
\* then no frame was sent after the fault.
TransportFault ==
    \/ streamError # "nil"
    \/ \E i \in Idx : sent[i].res = "fail"

C4_FinishedOnceOrSilentAfterFault ==
    (AckedOk /\ started /\ ~earlyStart /\ ex = "done") =>
        IF TransportFault
        THEN \A i \in Idx : ~sent[i].fault
        ELSE NumKind("Fin") = 1

\* -------------------------------------------------------------------- C5
\* C5: after an Acknowledge with accepted=false no ResultHeaders, DataChunk
\* or Finished frame is sent, and the session has ended with the allocation
\* error once that Acknowledge's Send has returned.
C5_NothingAfterRefusal ==
    \A i \in Idx :
        (sent[i].kind = "Ack" /\ ~sent[i].flag) =>
            /\ \A j \in Idx : j > i => sent[j].kind \notin Output
            /\ sent[i].res # "pending" => (rl = "returned" /\ ret = "allocErr")

\* -------------------------------------------------------------------- C6
\* C6: the Acknowledge precedes every ResultHeaders, DataChunk and Finished
\* frame; Finished follows the end-of-stream DataChunk of the response, or
\* no output at all; nothing follows Finished.
C6_FrameOrder ==
    ~earlyStart => \A j \in Idx :
        /\ sent[j].kind = "Ack" =>
               \A i \in Idx : i < j => sent[i].kind \notin Output
        /\ sent[j].kind = "Fin" =>
               \/ \E i \in Idx : i < j /\ sent[i].kind = "Data" /\ sent[i].flag
               \/ \A i \in Idx : i < j => sent[i].kind \notin {"RH", "Data"}
        /\ \A i \in Idx : i < j => sent[i].kind # "Fin"

\* -------------------------------------------------------------------- C7
\* C7: a Finished frame that reports the execution error after headers or
\* body bytes were sent is preceded by the end-of-stream DataChunk.
C7_EofBeforeFailedFinished ==
    ~earlyStart => \A j \in Idx :
        ( /\ sent[j].kind = "Fin"
          /\ sent[j].detail = "execErr"
          /\ \E i \in Idx : i < j /\ sent[i].kind = "Data" /\ ~sent[i].flag
          /\ \A i \in Idx : ~sent[i].fault ) =>
            \E i \in Idx : i < j /\ sent[i].kind = "Data" /\ sent[i].flag

\* -------------------------------------------------------------------- C8
\* C8: no two Sends are in progress at once, and the test of streamError,
\* the Send it guards and the recording of the Send's error are one atomic
\* step: a guarded Send (Acknowledge, Finished) never starts with
\* streamError set by the other activity since the test.
C8_SendsSerialized ==
    ~earlyStart =>
        /\ ~(RlSending /\ ExSending)
        /\ \A i \in Idx : sent[i].kind \in {"Ack", "Fin"} => ~sent[i].fault

\* -------------------------------------------------------------------- C9
\* C9: the receive loop never waits for the executor: it is never inside
\* handleData's write into the input pipe with bytes outstanding when the
\* executor has already finished.
C9_ReceiveLoopNeverWaitsForExecutor ==
    (~earlyStart /\ rl = "pipeWrite" /\ ex = "done") => pipeUnread[input] = 0

\* ------------------------------------------------------------------- C10
\* C10: when the receive loop has returned a receive error, the stream fault
\* is set and, if a call was allocated, the write end of the input pipe is
\* closed, so that the input of the call the executor runs has ended.
C10_RecvErrorClosesInput ==
    (rl = "returned" /\ ret = "recvErr") =>
        /\ streamError # "nil"
        /\ c # NoCall => pipeClosed[input]
        /\ exCall # NoCall => pipeClosed[exCall]

\* ------------------------------------- the receive loop and other sessions
\* Status: the value the status query reads.
Status == inflight

\* Another Engage invocation on the same pureRunner starts: it increments
\* the counter.
OtherStart ==
    /\ ~panicked
    /\ \E o \in OtherIds :
         /\ others[o] = "idle"
         /\ others' = [others EXCEPT ![o] = "running"]
    /\ inflight' = inflight + 1
    /\ UNCHANGED <<rl, ret, nrecv, c, input, started, ncalls, ackOk, rlEof,
                   earlyStart, streamError, pipeVars, exVars, wVars, sent,
                   panicked, hVars, chunksIn, nrLog>>

\* It returns, on whichever path: the deferred decrement runs.
OtherReturn ==
    /\ ~panicked
    /\ \E o \in OtherIds :
         /\ others[o] = "running"
         /\ others' = [others EXCEPT ![o] = "returned"]
    /\ inflight' = inflight - 1
    /\ UNCHANGED <<rl, ret, nrecv, c, input, started, ncalls, ackOk, rlEof,
                   earlyStart, streamError, pipeVars, exVars, wVars, sent,
                   panicked, hVars, chunksIn, nrLog>>

LoopRecvData == RecvDataOf(LoopPayloads)

\* The receive loop with the executor only reading input, next to other
\* sessions of the same runner.
LoopNext ==
    \/ EngageStart
    \/ RecvError
    \/ RecvTry
    \/ AckBegin
    \/ AckEnd
    \/ LoopRecvData
    \/ PipeWriteDone
    \/ RecvOther
    \/ ExStart
    \/ EngineRead
    \/ OtherStart
    \/ OtherReturn

LoopSpec == Init /\ [][LoopNext]_vars

\* --------------------------------------------------------- the NullRunner
\* A runner that takes the work whenever its context is live.
TryExecWhenLive(ctx, call) == [accepted |-> ctx = "live", err |-> "nil"]

\* nullRunner.TryExec: its result for a context and a call.
TryExec(ctx, call) == [accepted |-> FALSE, err |-> "nil"]

\* nullRunner.Address.
Address == ""

NullEntry(op, ctx, call, accepted, err, addr) ==
    [op |-> op, ctx |-> ctx, call |-> call, accepted |-> accepted,
     err |-> err, addr |-> addr]

NullTryExec ==
    /\ Len(nrLog) < MaxNullOps
    /\ \E ctx \in Contexts, call \in CallIds :
         nrLog' = Append(nrLog, NullEntry("TryExec", ctx, call,
                                          TryExec(ctx, call).accepted,
                                          TryExec(ctx, call).err, ""))
    /\ UNCHANGED <<rlVars, streamError, pipeVars, exVars, wVars, sent,
                   panicked, hVars, chunksIn, others>>

NullClose ==
    /\ Len(nrLog) < MaxNullOps
    /\ nrLog' = Append(nrLog, NullEntry("Close", "none", NoCall, FALSE, "nil", ""))
    /\ UNCHANGED <<rlVars, streamError, pipeVars, exVars, wVars, sent,
                   panicked, hVars, chunksIn, others>>

NullAddress ==
    /\ Len(nrLog) < MaxNullOps
    /\ nrLog' = Append(nrLog, NullEntry("Address", "none", NoCall, FALSE, "nil",
                                        Address))
    /\ UNCHANGED <<rlVars, streamError, pipeVars, exVars, wVars, sent,
                   panicked, hVars, chunksIn, others>>

NullNext ==
    \/ NullTryExec
    \/ NullClose
    \/ NullAddress

NullSpec == Init /\ [][NullNext]_vars

\* ------------------------------------------------------------------- C11
\* C11: whatever the engine calls on the adapter, the ResultHeaders frame is
\* sent at most once, and every DataChunk of the response, the one Close
\* sends included, comes after it.
C11_HeadersOnceAndFirst ==
    /\ NumKind("RH") <= 1
    /\ \A j \in Idx : sent[j].kind = "Data" =>
           \E i \in Idx : i < j /\ sent[i].kind = "RH"

\* Close on an adapter nothing was written to: headers, then end of stream.
C11_CloseWithoutWrite ==
    /\ writes = 0
    /\ \E j \in Idx : sent[j].kind = "Data" /\ sent[j].flag

\* ------------------------------------------------------------------- C12
\* C12: the ResultHeaders frame carries the status and headers the adapter
\* held when it first committed, it is the only one, and no other frame
\* carries a status or headers, whatever WriteHeader or Header() do later.
C12_CommittedHeadersStay ==
    /\ NumKind("RH") <= 1
    /\ \A i \in Idx :
         IF sent[i].kind = "RH"
         THEN /\ sent[i].status = committed.status
              /\ sent[i].headers = committed.headers
         ELSE /\ sent[i].status = 0
              /\ sent[i].headers = {}

\* Status and headers were both changed after the ResultHeaders frame went
\* out, and a frame was sent after the change.
C12_MutatedAfterCommit ==
    /\ \E i \in Idx : sent[i].kind = "RH" /\ sent[i].res = "ok"
    /\ outStatus # committed.status
    /\ outHeaders # committed.headers
    /\ \E j \in Idx : sent[j].kind = "Data" /\ sent[j].flag

\* ------------------------------------------------------------------- C13
DataFrames == SelectSeq(sent, LAMBDA f : f.kind = "Data")
BodyFrames == SelectSeq(sent, LAMBDA f : f.kind = "Data" /\ ~f.flag)

RECURSIVE Concat(_)
Concat(frames) ==
    IF frames = <<>> THEN <<>> ELSE Head(frames).data \o Concat(Tail(frames))

NoSendFailed == \A i \in Idx : sent[i].res # "fail"

\* The adapter has been closed: its end-of-stream frame has been sent.
Closed == \E i \in Idx : sent[i].kind = "Data" /\ sent[i].flag /\ sent[i].res = "ok"

\* C13: after the writes and the one Close, with no Send failed, the
\* payloads of the DataChunks in send order are the bytes written in call
\* order, one frame with endOfStream=false per Write, and the last
\* DataChunk, and only it, is the empty end-of-stream frame.
C13_BodyRoundTrip ==
    (Closed /\ NoSendFailed) =>
        /\ Concat(BodyFrames) = written
        /\ Len(BodyFrames) = writes
        /\ Len(DataFrames) = writes + 1
        /\ DataFrames[Len(DataFrames)].flag
        /\ DataFrames[Len(DataFrames)].data = <<>>

\* Two different writes, then Close, all sent.
C13_TwoWritesThenClose ==
    /\ Closed
    /\ NoSendFailed
    /\ written = <<1, 2>>

\* ------------------------------------------------------------------- C14
\* The Engage invocations in progress: this session between its increment
\* and its return, and the other sessions that are running.
InProgress ==
    (IF rl \in {"init", "returned"} THEN 0 ELSE 1)
        + Cardinality({o \in OtherIds : others[o] = "running"})

\* C14: in every reachable state the status query's value is the number of
\* Engage invocations in progress, and it is never negative.
C14_InflightCountsSessions ==
    /\ Status = InProgress
    /\ Status >= 0

\* This session ended on a pipe write error while one other session runs
\* and another has ended.
C14_EndedNextToOthers ==
    /\ rl = "returned"
    /\ ret = "pipeErr"
    /\ \E o \in OtherIds : others[o] = "running"
    /\ \E o \in OtherIds : others[o] = "returned"

\* ------------------------------------------------------------------- C18
\* The payloads of the chunks up to and including the first end-of-stream
\* chunk, in arrival order.
RECURSIVE UpToEof(_)
UpToEof(chunks) ==
    IF chunks = <<>> THEN <<>>
    ELSE IF Head(chunks).eof THEN Head(chunks).data
    ELSE Head(chunks).data \o UpToEof(Tail(chunks))

IsFirstEof(chunks, k) ==
    /\ k \in DOMAIN chunks
    /\ chunks[k].eof
    /\ \A j \in 1..(k - 1) : ~chunks[j].eof

\* The receive loop is inside state.input.Write for chunk k of pipe p.
Writing(p, k) == rl = "pipeWrite" /\ input = p /\ Len(chunksIn[p]) = k

C16_NullRunnerRefuses ==
    \A i \in DOMAIN nrLog :
        nrLog[i].op = "TryExec" => (~nrLog[i].accepted /\ nrLog[i].err = "nil")

\* TryExec with a live context, after Close and an earlier TryExec.
C16_TryExecAfterClose ==
    \E i, j, k \in DOMAIN nrLog :
        /\ i < j /\ j < k
        /\ nrLog[i].op = "TryExec"
        /\ nrLog[j].op = "Close"
        /\ nrLog[k].op = "TryExec"
        /\ nrLog[k].ctx = "live"

C17_InputClosedOnReturn ==
    (rl = "returned" /\ c # NoCall) => pipeClosed[input]

\* ------------------------------------------------------------------- C19
\* C19: whenever the started flag is set the session's call and input pipe
\* are present, and no step has used an absent call or an absent pipe.
C19_StartedOnlyWithCall ==
    /\ started => (c # NoCall /\ input # NoCall)
    /\ ~panicked

\* ------------------------------------------------------------------- C20
\* C20: a Finished frame with success=true comes only after an execution
\* that returned no error and only after adapter frames (ResultHeaders,
\* body and end-of-stream DataChunks) that were all sent without error.
C20_SuccessOnlyAfterCleanSends ==
    ~earlyStart =>
        \A j \in Idx : (sent[j].kind = "Fin" /\ sent[j].flag) =>
            /\ exDetail = "ok"
            /\ \A i \in Idx :
                 (i < j /\ sent[i].kind \in {"RH", "Data"}) => sent[i].res = "ok"
====
